---- MODULE Spec2Model ----
(***************************************************************************)
(* A model of flexi_logger (src/src/lib.rs): the logging-specification     *)
(* parser, the directive table and its lookup, the one-time installation   *)
(* of the global logger, and the dispatch of log records to the file sink  *)
(* (behind a mutex), to standard error and to standard output.             *)
(*                                                                         *)
(* Strings are sequences of symbols.  A symbol is one character, except    *)
(* the level keywords "info" and "off", which stand for the characters     *)
(* that spell them (no other symbol of the alphabet is one of their        *)
(* characters, so prefix and substring tests on symbol sequences agree     *)
(* with the tests on the characters).  An Option is a sequence of length   *)
(* at most one.                                                            *)
(***************************************************************************)
EXTENDS Integers, Sequences, FiniteSets, TLC

\* ------------------------------------------------------------------ bounds
\* The longest specification string and the longest target tried.
MaxSpecLen == 5
MaxTargetLen == 2
\* The threads that log, and the log calls they issue between them.
NThreads == 2
MaxCalls == 2

\* ------------------------------------------------------- options, strings
None == <<>>
Some(x) == <<x>>
IsSome(o) == o # <<>>
Unwrap(o) == o[1]

Range(s) == {s[i] : i \in 1..Len(s)}

StringsUpTo(alphabet, n) == UNION {[1..k -> alphabet] : k \in 0..n}

\* The number of bytes of a symbol: str::len counts bytes.
SymLen(c) == CASE c = "info" -> 4 [] c = "off" -> 3 [] OTHER -> 1

RECURSIVE StrLen(_)
StrLen(s) == IF s = <<>> THEN 0 ELSE SymLen(Head(s)) + StrLen(Tail(s))

\* str::split(sep): the pieces between the separators; "" yields one empty piece.
RECURSIVE split(_, _)
split(s, sep) ==
    IF \E i \in 1..Len(s) : s[i] = sep
    THEN LET i == CHOOSE j \in 1..Len(s) :
                      s[j] = sep /\ \A k \in 1..(j - 1) : s[k] # sep
         IN  <<SubSeq(s, 1, i - 1)>> \o split(SubSeq(s, i + 1, Len(s)), sep)
    ELSE <<s>>

\* str::trim: white space removed at both ends.
RECURSIVE trim_start(_)
trim_start(s) == IF s # <<>> /\ Head(s) = " " THEN trim_start(Tail(s)) ELSE s

RECURSIVE trim_end(_)
trim_end(s) ==
    IF s # <<>> /\ s[Len(s)] = " " THEN trim_end(SubSeq(s, 1, Len(s) - 1)) ELSE s

trim(s) == trim_end(trim_start(s))

starts_with(s, prefix) ==
    Len(prefix) <= Len(s) /\ SubSeq(s, 1, Len(prefix)) = prefix

\* ------------------------------------------------------------------ levels
Off == 0
Error == 1
Warn == 2
Info == 3
Debug == 4
Trace == 5

LogLevel == Error..Trace
LogLevelFilter == Off..Trace
LogLevelFilterMax == Trace

\* str::parse::<LogLevelFilter>: Some(level) for a level keyword, None otherwise.
ParseLevel(s) ==
    CASE s = <<"info">> -> Some(Info)
      [] s = <<"off">>  -> Some(Off)
      [] OTHER          -> None

\* ------------------------------------------------------------------- regex
\* Regex::new: the pattern compiles unless it holds an unclosed group.
RegexNew(pattern) == IF "(" \in Range(pattern) THEN None ELSE Some(pattern)

\* Regex::is_match for a pattern of literal characters: it occurs in the text.
is_match(re, text) ==
    \E i \in 0..(Len(text) - Len(re)) : SubSeq(text, i + 1, i + Len(re)) = re

\* -------------------------------------------------------------- the parser
LogDirective(name, level) == [name |-> name, level |-> level]

\* One comma-segment of the module list: the directive it contributes (dir is
\* None when the segment is skipped) and the warning it prints.  invalid is what
\* a name=level segment yields when level does not parse.
segment_directive(s, invalid) ==
    LET parts == split(s, "=")
        part0 == parts[1]
    IN  IF Len(s) = 0 THEN [dir |-> None, warn |-> <<>>]
        ELSE IF Len(parts) = 1
        THEN IF IsSome(ParseLevel(part0))
             THEN [dir |-> Some(LogDirective(None, Unwrap(ParseLevel(part0)))),
                   warn |-> <<>>]
             ELSE [dir |-> Some(LogDirective(Some(part0), LogLevelFilterMax)),
                   warn |-> <<>>]
        ELSE IF Len(parts) = 2
        THEN LET part1 == trim(parts[2])
             IN  IF part1 = <<>>
                 THEN [dir |-> Some(LogDirective(Some(part0), LogLevelFilterMax)),
                       warn |-> <<>>]
                 ELSE IF IsSome(ParseLevel(part1))
                 THEN [dir |-> Some(LogDirective(Some(part0),
                                                 Unwrap(ParseLevel(part1)))),
                       warn |-> <<>>]
                 ELSE invalid
        ELSE [dir |-> None, warn |-> <<"invalid directive">>]

\* A parser that keeps a directive whose level does not parse, at the maximum level.
parse_segment_keeps_invalid(s) ==
    segment_directive(s, [dir  |-> Some(LogDirective(Some(split(s, "=")[1]),
                                                     LogLevelFilterMax)),
                          warn |-> <<"invalid level">>])

parse_segment(s) ==
    segment_directive(s, [dir |-> None, warn |-> <<"invalid level">>])

\* The loop over the comma-segments: the directives pushed, in order.
RECURSIVE parse_mods(_)
parse_mods(segs) ==
    IF segs = <<>> THEN [dirs |-> <<>>, warns |-> <<>>]
    ELSE LET first == parse_segment(Head(segs))
             rest  == parse_mods(Tail(segs))
         IN  [dirs  |-> first.dir \o rest.dirs,
              warns |-> first.warn \o rest.warns]

\* A parser that gives up the directives when the pattern does not compile.
parse_filter_drops_dirs(filter, dirs, warns) ==
    IF IsSome(filter) /\ ~IsSome(RegexNew(Unwrap(filter)))
    THEN [dirs |-> <<>>, filter |-> None, warns |-> warns \o <<"invalid regex">>]
    ELSE [dirs |-> dirs,
          filter |-> IF IsSome(filter) THEN RegexNew(Unwrap(filter)) ELSE None,
          warns |-> warns]

\* The compilation of the trailing pattern: a pattern that does not compile is
\* dropped with a warning, the directives are returned as they are.
parse_filter(filter, dirs, warns) ==
    IF IsSome(filter) /\ ~IsSome(RegexNew(Unwrap(filter)))
    THEN [dirs |-> dirs, filter |-> None, warns |-> warns \o <<"invalid regex">>]
    ELSE [dirs |-> dirs,
          filter |-> IF IsSome(filter) THEN RegexNew(Unwrap(filter)) ELSE None,
          warns |-> warns]

\* A parser that reads the first two parts whatever follows them.
parse_logging_spec_ignores_rest(spec) ==
    LET parts  == split(spec, "/")
        filter == IF Len(parts) >= 2 THEN Some(parts[2]) ELSE None
        m      == parse_mods(split(parts[1], ","))
    IN  parse_filter(filter, m.dirs, m.warns)

\* (directives in the order of their segments, exclusion filter, warnings printed)
parse_logging_spec(spec) ==
    LET parts  == split(spec, "/")
        mods   == parts[1]
        filter == IF Len(parts) >= 2 THEN Some(parts[2]) ELSE None
        m      == parse_mods(split(mods, ","))
    IN  IF Len(parts) >= 3
        THEN [dirs |-> <<>>, filter |-> None, warns |-> <<"too many /">>]
        ELSE parse_filter(filter, m.dirs, m.warns)

\* ------------------------------------------------------ the directive table
NameLen(d) == IF IsSome(d.name) THEN StrLen(Unwrap(d.name)) ELSE 0

\* d goes behind every directive of sorted whose key is not larger than its own.
RECURSIVE insert_sorted(_, _)
insert_sorted(d, sorted) ==
    IF sorted = <<>> THEN <<d>>
    ELSE IF NameLen(Head(sorted)) <= NameLen(d)
    THEN <<Head(sorted)>> \o insert_sorted(d, Tail(sorted))
    ELSE <<d>> \o sorted

\* d goes before every directive of sorted whose key is not smaller than its own.
RECURSIVE insert_before_equal(_, _)
insert_before_equal(d, sorted) ==
    IF sorted = <<>> THEN <<d>>
    ELSE IF NameLen(Head(sorted)) < NameLen(d)
    THEN <<Head(sorted)>> \o insert_before_equal(d, Tail(sorted))
    ELSE <<d>> \o sorted

\* A sort that is not stable: directives of equal key end up in reverse order.
RECURSIVE sort_unstable(_)
sort_unstable(dirs) ==
    IF dirs = <<>> THEN <<>>
    ELSE insert_before_equal(dirs[Len(dirs)],
                             sort_unstable(SubSeq(dirs, 1, Len(dirs) - 1)))

\* directives.sort_by(|a, b| alen.cmp(&blen)): ascending by the length of the
\* name, None as 0; Vec::sort_by is stable.
RECURSIVE sort_by_name_len(_)
sort_by_name_len(dirs) ==
    IF dirs = <<>> THEN <<>>
    ELSE insert_sorted(dirs[Len(dirs)],
                       sort_by_name_len(SubSeq(dirs, 1, Len(dirs) - 1)))

\* A lookup that scans from the first directive to the last.
RECURSIVE ml_enabled_forward(_, _, _)
ml_enabled_forward(directives, level, target) ==
    IF directives = <<>> THEN FALSE
    ELSE LET directive == Head(directives)
         IN  IF IsSome(directive.name) /\ ~starts_with(target, Unwrap(directive.name))
             THEN ml_enabled_forward(Tail(directives), level, target)
             ELSE level <= directive.level

\* The scan from the last directive to the first: the first directive met whose
\* name is None or a prefix of target decides.
RECURSIVE ml_enabled(_, _, _)
ml_enabled(directives, level, target) ==
    IF directives = <<>> THEN FALSE
    ELSE LET directive == directives[Len(directives)]
         IN  IF IsSome(directive.name) /\ ~starts_with(target, Unwrap(directive.name))
             THEN ml_enabled(SubSeq(directives, 1, Len(directives) - 1), level, target)
             ELSE level <= directive.level

\* The largest level of the table, Off for an empty one.
RECURSIVE max_directive_level(_)
max_directive_level(directives) ==
    IF directives = <<>> THEN Off
    ELSE LET m == max_directive_level(Tail(directives))
         IN  IF Head(directives).level > m THEN Head(directives).level ELSE m

\* ---------------------------------------------------------------- records
\* A LogRecord: its level, its target (the module path) and its message.
LogRecord(level, target, args) == [level |-> level, target |-> target, args |-> args]

NoRecord == LogRecord(Off, <<>>, <<>>)

LevelName(level) ==
    CASE level = Error -> "ERROR" [] level = Warn -> "WARN" [] level = Info -> "INFO"
      [] level = Debug -> "DEBUG" [] OTHER -> "TRACE"

\* format!("{} [{}] {}", level, module_path, args)
default_format(record) ==
    <<LevelName(record.level), " [">> \o record.target \o <<"] ">> \o record.args

\* let mut msg = (self.config.format)(record); msg.push('\n');
formatted_msg(record) == default_format(record) \o <<"\n">>

\* -------------------------------------------------------------- the inputs
SpecAlphabet == {"a", "(", " ", "=", ",", "/", "info", "off"}
TargetAlphabet == {"a", "c"}

AllSpecs == StringsUpTo(SpecAlphabet, MaxSpecLen)
Targets == StringsUpTo(TargetAlphabet, MaxTargetLen)

\* The records the threads log.
Records ==
    { LogRecord(Error, <<"a">>, <<"a">>),
      LogRecord(Info,  <<"c">>, <<"c">>),
      LogRecord(Debug, <<"a", "c">>, <<"c">>) }

\* The configurations init is called with: every setting of the four flags.
LogConfig(to_file, print, dup_error, dup_info) ==
    [log_to_file |-> to_file, print_message |-> print,
     duplicate_error |-> dup_error, duplicate_info |-> dup_info]

LogConfig_new == LogConfig(FALSE, TRUE, TRUE, FALSE)

Configs == {LogConfig(f, p, e, i) : f \in BOOLEAN, p \in BOOLEAN, e \in BOOLEAN, i \in BOOLEAN}

\* The loglevelspec arguments of init, and the values of RUST_LOG, of the runs
\* that log.
ArgSpecs == {None, Some(<<"info", "/", "a">>)}
EnvSpecs == {Some(<<"a">>)}

Threads == 1..NThreads
MainThread == 1

\* ------------------------------------------------------------------ state
VARIABLES
    rust_log,     \* the environment variable RUST_LOG: None or Some(string)
    logger,       \* the installed logger: None or Some(FlexiLogger)
    max_level,    \* the facade's maximum level, set by init
    parsed,       \* what parse_logging_spec returned to init: None if not called
    init_result,  \* what the last call of init returned
    stdout,       \* what was printed to standard output, in order
    stderr,       \* what was written to standard error, one entry per write
    file,         \* the bytes of the log file, each with the thread that wrote it
    mutex,        \* the thread that holds the lock of line_writer, 0 if none
    poisoned,     \* the lock was released by a panic
    pc,           \* where each thread is in FlexiLogger::log
    rec,          \* the record a thread is writing
    wpos,         \* how many bytes of its line a thread has written
    issued,       \* how many log calls a thread has made
    terminated,   \* the process has ended
    file_calls,   \* history: the calls of a thread that went on to the file sink
    suppressed    \* history: the calls the exclusion filter discarded

vars == <<rust_log, logger, max_level, parsed, init_result, stdout, stderr, file,
          mutex, poisoned, pc, rec, wpos, issued, terminated, file_calls, suppressed>>

sinks == <<stdout, stderr, file>>
threads == <<mutex, poisoned, pc, rec, wpos, issued, terminated, file_calls, suppressed>>

InitWith(env) ==
    /\ rust_log \in env
    /\ logger = None
    /\ max_level = Off
    /\ parsed = None
    /\ init_result = "not called"
    /\ stdout = <<>>
    /\ stderr = <<>>
    /\ file = <<>>
    /\ mutex = 0
    /\ poisoned = FALSE
    /\ pc = [t \in Threads |-> "idle"]
    /\ rec = [t \in Threads |-> NoRecord]
    /\ wpos = [t \in Threads |-> 0]
    /\ issued = [t \in Threads |-> 0]
    /\ terminated = FALSE
    /\ file_calls = [t \in Threads |-> 0]
    /\ suppressed = 0

Init == InitWith(EnvSpecs)

InitParse == InitWith({None} \cup {Some(s) : s \in AllSpecs})

\* ------------------------------------------------------------------- init
FlexiLogger(directives, filter, config) ==
    [directives |-> directives, filter |-> filter, config |-> config]

Printed(kind, text) == [kind |-> kind, text |-> text]

RECURSIVE Warnings(_)
Warnings(warns) ==
    IF warns = <<>> THEN <<>>
    ELSE <<Printed("warning", <<Head(warns)>>)>> \o Warnings(Tail(warns))

\* The closure init hands to log::set_logger: parse, sort, set the maximum level,
\* print the name of the trace file, create the file, build the logger.
make_logger(config, loglevelspec) ==
    LET p == IF IsSome(loglevelspec) THEN Some(parse_logging_spec(Unwrap(loglevelspec)))
             ELSE IF IsSome(rust_log) THEN Some(parse_logging_spec(Unwrap(rust_log)))
             ELSE None
        raw == IF IsSome(p) THEN Unwrap(p).dirs ELSE <<LogDirective(None, Error)>>
        filter == IF IsSome(p) THEN Unwrap(p).filter ELSE None
        warns == IF IsSome(p) THEN Unwrap(p).warns ELSE <<>>
        directives == sort_by_name_len(raw)
    IN  /\ parsed' = p
        /\ max_level' = max_directive_level(directives)
        /\ stdout' = stdout \o Warnings(warns)
                       \o (IF config.print_message
                           THEN <<Printed("trace file", <<>>)>> ELSE <<>>)
        /\ file' = <<>>
        /\ logger' = Some(FlexiLogger(directives, filter, config))

\* An init that installs its logger whether or not one is installed.
init_replaces(config, loglevelspec) ==
    /\ ~terminated
    /\ make_logger(config, loglevelspec)
    /\ init_result' = "Ok"
    /\ UNCHANGED <<rust_log, stderr, threads>>

\* log::set_logger runs the closure only if no logger is installed, and fails
\* otherwise; init maps the failure to a FlexiLoggerError.
init(config, loglevelspec) ==
    /\ ~terminated
    /\ IF IsSome(logger)
       THEN /\ init_result' = "Err"
            /\ UNCHANGED <<rust_log, logger, max_level, parsed, sinks, threads>>
       ELSE /\ make_logger(config, loglevelspec)
            /\ init_result' = "Ok"
            /\ UNCHANGED <<rust_log, stderr, threads>>

InitCall == \E config \in Configs, loglevelspec \in ArgSpecs : init(config, loglevelspec)

\* flexi_logger::init(LogConfig::new(), None): the specification comes from RUST_LOG.
InitFromEnv == logger = None /\ init(LogConfig_new, None)

\* -------------------------------------------------------- FlexiLogger::log
\* A logger whose exclusion filter suppresses nothing.
excluded_never(filter, record) == FALSE

\* if let Some(filter) = self.filter.as_ref() { if filter.is_match(args) { return } }
excluded(filter, record) == IsSome(filter) /\ is_match(Unwrap(filter), record.args)

\* println!("{}", &record.args()) for an error or an info record, as configured.
echo(config, record) ==
    IF \/ config.duplicate_error /\ record.level = Error
       \/ config.duplicate_info /\ record.level = Info
    THEN <<Printed("echo", record.args)>>
    ELSE <<>>

RECURSIVE SumTo(_, _)
SumTo(f, n) == IF n = 0 THEN 0 ELSE f[n] + SumTo(f, n - 1)

\* The log calls made so far, by all threads.
CallsIssued == SumTo(issued, NThreads)

\* The call up to the choice of the sink: the checks that return early, the
\* formatting and, in file mode, the echo.  Without a logger the facade drops
\* the record.
LogCall(t, record) ==
    /\ ~terminated
    /\ pc[t] = "idle"
    /\ CallsIssued < MaxCalls
    /\ issued' = [issued EXCEPT ![t] = @ + 1]
    /\ IF ~IsSome(logger)
       THEN UNCHANGED <<pc, rec, stdout, file_calls, suppressed>>
       ELSE LET self == Unwrap(logger)
            IN  IF ~ml_enabled(self.directives, record.level, record.target)
                THEN UNCHANGED <<pc, rec, stdout, file_calls, suppressed>>
                ELSE IF excluded(self.filter, record)
                THEN /\ suppressed' = suppressed + 1
                     /\ UNCHANGED <<pc, rec, stdout, file_calls>>
                ELSE IF self.config.log_to_file
                THEN /\ stdout' = stdout \o echo(self.config, record)
                     /\ pc' = [pc EXCEPT ![t] = "lock"]
                     /\ rec' = [rec EXCEPT ![t] = record]
                     /\ file_calls' = [file_calls EXCEPT ![t] = @ + 1]
                     /\ UNCHANGED suppressed
                ELSE /\ pc' = [pc EXCEPT ![t] = "stderr"]
                     /\ rec' = [rec EXCEPT ![t] = record]
                     /\ UNCHANGED <<stdout, file_calls, suppressed>>
    /\ UNCHANGED <<rust_log, logger, max_level, parsed, init_result, stderr, file,
                   mutex, poisoned, wpos, terminated>>

\* A panic unwinds the thread; the process ends with its main thread.
panic(t) ==
    /\ pc' = [pc EXCEPT ![t] = "panicked"]
    /\ terminated' = (t = MainThread)

\* A lock that is handed out while another thread holds it.
Lock_without_exclusion(t) ==
    /\ ~terminated
    /\ pc[t] = "lock"
    /\ IF poisoned
       THEN panic(t) /\ UNCHANGED <<mutex, wpos>>
       ELSE /\ mutex' = t
            /\ pc' = [pc EXCEPT ![t] = "write"]
            /\ wpos' = [wpos EXCEPT ![t] = 0]
            /\ UNCHANGED terminated
    /\ UNCHANGED <<rust_log, logger, max_level, parsed, init_result, sinks,
                   poisoned, rec, issued, file_calls, suppressed>>

\* lw.lock().unwrap(): the thread waits while another holds the lock, and panics
\* if the lock is poisoned.
Lock(t) ==
    /\ ~terminated
    /\ pc[t] = "lock"
    /\ IF poisoned
       THEN panic(t) /\ UNCHANGED <<mutex, wpos>>
       ELSE /\ mutex = 0
            /\ mutex' = t
            /\ pc' = [pc EXCEPT ![t] = "write"]
            /\ wpos' = [wpos EXCEPT ![t] = 0]
            /\ UNCHANGED terminated
    /\ UNCHANGED <<rust_log, logger, max_level, parsed, init_result, sinks,
                   poisoned, rec, issued, file_calls, suppressed>>

\* lw1.write(msgb): the bytes of the line reach the file one after the other;
\* with the last one the call returns and the guard releases the lock.  A write
\* that fails panics, and the guard dropped by the panic poisons the lock.
Write(t) ==
    /\ ~terminated
    /\ pc[t] = "write"
    /\ \E ok \in BOOLEAN :
         IF ok
         THEN /\ file' = Append(file, [by |-> t, sym |-> formatted_msg(rec[t])[wpos[t] + 1]])
              /\ IF wpos[t] + 1 = Len(formatted_msg(rec[t]))
                 THEN /\ mutex' = 0
                      /\ pc' = [pc EXCEPT ![t] = "idle"]
                      /\ rec' = [rec EXCEPT ![t] = NoRecord]
                      /\ wpos' = [wpos EXCEPT ![t] = 0]
                 ELSE /\ wpos' = [wpos EXCEPT ![t] = @ + 1]
                      /\ UNCHANGED <<mutex, pc, rec>>
              /\ UNCHANGED <<poisoned, terminated>>
         ELSE /\ panic(t)
              /\ mutex' = 0
              /\ poisoned' = TRUE
              /\ UNCHANGED <<file, rec, wpos>>
    /\ UNCHANGED <<rust_log, logger, max_level, parsed, init_result, stdout, stderr,
                   issued, file_calls, suppressed>>

\* let _ = writeln!(&mut io::stderr(), "{}", msg): msg and a line terminator in one
\* write, the result of which is dropped.
StderrWrite(t) ==
    /\ ~terminated
    /\ pc[t] = "stderr"
    /\ \E ok \in BOOLEAN :
         stderr' = IF ok THEN Append(stderr, formatted_msg(rec[t]) \o <<"\n">>) ELSE stderr
    /\ pc' = [pc EXCEPT ![t] = "idle"]
    /\ rec' = [rec EXCEPT ![t] = NoRecord]
    /\ UNCHANGED <<rust_log, logger, max_level, parsed, init_result, stdout, file,
                   mutex, poisoned, wpos, issued, terminated, file_calls, suppressed>>

\* ------------------------------------------------------------ specifications
Log == \E t \in Threads, record \in Records : LogCall(t, record)
AcquireLock == \E t \in Threads : Lock(t)
WriteFile == \E t \in Threads : Write(t)
WriteStderr == \E t \in Threads : StderrWrite(t)

Next == InitCall \/ Log \/ AcquireLock \/ WriteFile \/ WriteStderr

\* The program: init and the threads that log.
Spec == Init /\ [][Next]_vars

NextParse == InitFromEnv

\* init on every specification string up to MaxSpecLen.
SpecParse == InitParse /\ [][NextParse]_vars

\* ------------------------------------------------- claims about the parser
\* What the claims read off a state in which init has built a logger.
Installed == Unwrap(logger)
Table == Installed.directives

\* The directives init got before it sorted them.
RawDirectives ==
    IF IsSome(parsed) THEN Unwrap(parsed).dirs ELSE <<LogDirective(None, Error)>>

Matches(d, target) == ~IsSome(d.name) \/ starts_with(target, Unwrap(d.name))

\* The directives of ds that match target with a name as long as any that does.
LongestMatches(ds, target) ==
    LET matching == {i \in DOMAIN ds : Matches(ds[i], target)}
    IN  {i \in matching : \A j \in matching : NameLen(ds[j]) <= NameLen(ds[i])}

SetMax(S) == CHOOSE x \in S : \A y \in S : y <= x

Count(s, c) == Cardinality({i \in DOMAIN s : s[i] = c})

RECURSIVE Join(_, _)
Join(pieces, sep) ==
    IF Len(pieces) = 0 THEN <<>>
    ELSE IF Len(pieces) = 1 THEN pieces[1]
    ELSE pieces[1] \o <<sep>> \o Join(Tail(pieces), sep)

Without(seq, k) == SubSeq(seq, 1, k - 1) \o SubSeq(seq, k + 1, Len(seq))

\* The comma-segments of the module list of spec.
Segments(spec) == split(split(spec, "/")[1], ",")

\* spec with the k-th comma-segment of its module list, and one of the commas
\* around it, taken out.
RemoveSegment(spec, k) ==
    LET parts == split(spec, "/")
    IN  Join(<<Join(Without(Segments(spec), k), ",")>> \o Tail(parts), "/")

\* seg is name=level, and what is right of the = is not a level.
HasInvalidLevel(seg) ==
    LET parts == split(seg, "=")
    IN  Len(parts) = 2 /\ parts[2] # <<>> /\ ~IsSome(ParseLevel(trim(parts[2])))

\* As HasInvalidLevel, for a right-hand side that is more than white space.
HasInvalidLevelWord(seg) ==
    LET parts == split(seg, "=")
    IN  Len(parts) = 2 /\ trim(parts[2]) # <<>> /\ ~IsSome(ParseLevel(trim(parts[2])))

\* C1: whatever specification the table was built from, ml_enabled(level, target)
\* is level <= D.level for a directive D whose name is a prefix of target (or
\* None) and as long as that of any such directive, and FALSE when no directive
\* matches target.
C1_LongestPrefixWins ==
    IsSome(logger) =>
        \A target \in Targets :
            LET M == LongestMatches(Table, target)
            IN  IF M = {}
                THEN \A level \in LogLevel : ~ml_enabled(Table, level, target)
                ELSE \E i \in M : \A level \in LogLevel :
                         ml_enabled(Table, level, target) <=> level <= Table[i].level

\* A table in which a shorter and a longer name match a target, at levels that
\* decide an info record differently, and the longer one has decided.
C1_Witness ==
    /\ IsSome(logger)
    /\ \E target \in Targets, i, j \in DOMAIN Table :
         /\ Matches(Table[i], target) /\ Matches(Table[j], target)
         /\ NameLen(Table[i]) < NameLen(Table[j])
         /\ j \in LongestMatches(Table, target)
         /\ (Info <= Table[i].level) # (Info <= Table[j].level)
         /\ ml_enabled(Table, Info, target) <=> Info <= Table[j].level

\* C5: a specification with more than one '/' yields no directive and no filter,
\* and the logger built from it has every record disabled.
C5_TooManySlashes ==
    (IsSome(logger) /\ IsSome(rust_log) /\ Count(Unwrap(rust_log), "/") > 1) =>
        /\ Unwrap(parsed).dirs = <<>>
        /\ Unwrap(parsed).filter = None
        /\ Table = <<>>
        /\ Installed.filter = None
        /\ \A target \in Targets, level \in LogLevel : ~ml_enabled(Table, level, target)

\* A specification with two '/' whose module list holds a directive.
C5_Witness ==
    /\ IsSome(logger) /\ IsSome(rust_log)
    /\ Count(Unwrap(rust_log), "/") > 1
    /\ parse_mods(Segments(Unwrap(rust_log))).dirs # <<>>
    /\ Table = <<>>

\* C6 as stated: a segment name=level whose right-hand side is not a level
\* contributes nothing, and the directives are those of the specification
\* without the segment.
C6_InvalidLevelSkipped ==
    (IsSome(logger) /\ IsSome(rust_log)) =>
        \A k \in DOMAIN Segments(Unwrap(rust_log)) :
            HasInvalidLevel(Segments(Unwrap(rust_log))[k]) =>
                Unwrap(parsed).dirs = parse_logging_spec(RemoveSegment(Unwrap(rust_log), k)).dirs

\* C6, amended: the same for a segment name=level whose right-hand side, white
\* space at its ends removed, is not empty and is not a level.
C6_InvalidLevelWordSkipped ==
    (IsSome(logger) /\ IsSome(rust_log)) =>
        \A k \in DOMAIN Segments(Unwrap(rust_log)) :
            HasInvalidLevelWord(Segments(Unwrap(rust_log))[k]) =>
                /\ parse_segment(Segments(Unwrap(rust_log))[k]).dir = None
                /\ Unwrap(parsed).dirs
                     = parse_logging_spec(RemoveSegment(Unwrap(rust_log), k)).dirs

\* Several segments, one with an invalid level, and directives from the others.
C6_Witness ==
    /\ IsSome(logger) /\ IsSome(rust_log)
    /\ Count(Unwrap(rust_log), "/") = 0
    /\ Len(Segments(Unwrap(rust_log))) >= 2
    /\ \E k \in DOMAIN Segments(Unwrap(rust_log)) :
         HasInvalidLevelWord(Segments(Unwrap(rust_log))[k])
    /\ Unwrap(parsed).dirs # <<>>

\* C7: with exactly one '/' and a pattern that does not compile, there is no
\* filter and the directives are those of the module list parsed alone.
C7_BadPatternKeepsDirectives ==
    (/\ IsSome(logger) /\ IsSome(rust_log)
     /\ Count(Unwrap(rust_log), "/") = 1
     /\ ~IsSome(RegexNew(split(Unwrap(rust_log), "/")[2]))) =>
        /\ Unwrap(parsed).filter = None
        /\ Installed.filter = None
        /\ Unwrap(parsed).dirs = parse_logging_spec(split(Unwrap(rust_log), "/")[1]).dirs

\* A pattern that does not compile behind a module list that holds a directive.
C7_Witness ==
    /\ IsSome(logger) /\ IsSome(rust_log)
    /\ Count(Unwrap(rust_log), "/") = 1
    /\ ~IsSome(RegexNew(split(Unwrap(rust_log), "/")[2]))
    /\ Unwrap(parsed).dirs # <<>>

\* The directives of ds whose name has length n, in their order.
OfLength(ds, n) ==
    LET Test(d) == NameLen(d) = n
    IN  SelectSeq(ds, Test)

\* C10: the table is in ascending order of name length, directives of equal
\* name length are in the order of their segments, and so among the directives
\* that match a target with the longest name the one written last decides.
C10_StableOrder ==
    IsSome(logger) =>
        /\ Len(Table) = Len(RawDirectives)
        /\ \A i, j \in DOMAIN Table : i < j => NameLen(Table[i]) <= NameLen(Table[j])
        /\ \A k \in DOMAIN RawDirectives :
             OfLength(Table, NameLen(RawDirectives[k]))
               = OfLength(RawDirectives, NameLen(RawDirectives[k]))
        /\ \A target \in Targets :
             LET M == LongestMatches(RawDirectives, target)
             IN  M # {} =>
                   \A level \in LogLevel :
                       ml_enabled(Table, level, target)
                         <=> level <= RawDirectives[SetMax(M)].level

\* Two directives of one name at different levels, in a table the sort had to
\* reorder, and the later of the two decides for the targets they match.
C10_Witness ==
    /\ IsSome(logger)
    /\ Table # RawDirectives
    /\ \E i, j \in DOMAIN RawDirectives, target \in Targets :
         /\ i < j
         /\ RawDirectives[i].name = RawDirectives[j].name
         /\ (Info <= RawDirectives[i].level) # (Info <= RawDirectives[j].level)
         /\ LongestMatches(RawDirectives, target) = {i, j}
         /\ ml_enabled(Table, Info, target) <=> Info <= RawDirectives[j].level

\* ---------------------------------------------------- claims about the sinks
\* The file cut behind each line terminator: the complete lines, and what follows
\* the last terminator.
RECURSIVE LinesOf(_)
LinesOf(f) ==
    IF \E i \in DOMAIN f : f[i].sym = "\n"
    THEN LET i == CHOOSE j \in DOMAIN f :
                      f[j].sym = "\n" /\ \A k \in 1..(j - 1) : f[k].sym # "\n"
             r == LinesOf(SubSeq(f, i + 1, Len(f)))
         IN  [lines |-> <<SubSeq(f, 1, i)>> \o r.lines, rest |-> r.rest]
    ELSE [lines |-> <<>>, rest |-> f]

Syms(entries) == [i \in DOMAIN entries |-> entries[i].sym]
Writers(entries) == {entries[i].by : i \in DOMAIN entries}

\* 1 while a call of t is between its checks and its return, or has panicked.
InFlight(t) == IF pc[t] = "idle" THEN 0 ELSE 1

\* The log calls of t that have returned to their caller.
Returned(t) == issued[t] - InFlight(t)

C3_NoExcludedOutput ==
    (IsSome(logger) /\ IsSome(Installed.filter)) =>
        /\ \A i \in DOMAIN stdout :
             stdout[i].kind = "echo" => ~is_match(Unwrap(Installed.filter), stdout[i].text)
        /\ \A r \in Records :
             is_match(Unwrap(Installed.filter), r.args) =>
                 /\ \A k \in DOMAIN LinesOf(file).lines :
                      Syms(LinesOf(file).lines[k]) # formatted_msg(r)
                 /\ \A i \in DOMAIN stderr : ~starts_with(stderr[i], formatted_msg(r))
                 /\ \A t \in Threads : pc[t] # "idle" => rec[t] # r

\* A call with an enabled record whose message does not match the filter goes on
\* to a sink.
C3_NotSuppressed ==
    \A t \in Threads, r \in Records :
        (/\ LogCall(t, r)
         /\ IsSome(logger)
         /\ ml_enabled(Table, r.level, r.target)
         /\ ~(IsSome(Installed.filter) /\ is_match(Unwrap(Installed.filter), r.args)))
        => (pc'[t] \in {"lock", "stderr"} /\ rec'[t] = r)

\* C3: a record whose message matches the exclusion pattern reaches no sink and
\* is not echoed, whatever its level and target; one whose message does not
\* match is not held back by the exclusion step.
C3_Exclusion == []C3_NoExcludedOutput /\ [][C3_NotSuppressed]_vars

\* The filter has discarded a record, and another record has reached a sink.
C3_Witness ==
    /\ IsSome(logger) /\ IsSome(Installed.filter)
    /\ suppressed > 0
    /\ (LinesOf(file).lines # <<>> \/ stderr # <<>>)

\* C4: once a logger is installed no step replaces or changes it, its table or
\* its filter, none creates the file anew, and every call of init returns an error.
C4_SingleLogger ==
    [][IsSome(logger) =>
          /\ logger' = logger
          /\ parsed' = parsed
          /\ max_level' = max_level
          /\ starts_with(file', file)
          /\ starts_with(stdout', stdout)
          /\ (\E config \in Configs, loglevelspec \in ArgSpecs : init(config, loglevelspec))
               => (init_result' = "Err" /\ UNCHANGED sinks)]_vars

\* A second init has failed, and a record has been logged.
C4_Witness ==
    /\ IsSome(logger)
    /\ init_result = "Err"
    /\ (file # <<>> \/ stderr # <<>>)

\* C8 as stated: after a failed write to the file nothing more is appended to it
\* and no log call of any thread returns.
C8_WriteFailureIsFatal ==
    [][poisoned => (file' = file /\ \A t \in Threads : Returned(t)' = Returned(t))]_vars

\* C9 as stated: without log_to_file every write to standard error is the
\* formatter's output and one line terminator, the file stays empty and nothing
\* is echoed to standard output.
C9_StderrLine ==
    (IsSome(logger) /\ ~Installed.config.log_to_file) =>
        /\ \A i \in DOMAIN stderr :
             \E r \in Records : stderr[i] = default_format(r) \o <<"\n">>
        /\ file = <<>>
        /\ \A i \in DOMAIN stdout : stdout[i].kind # "echo"

====
